---- MODULE Spec2Model ----
(***************************************************************************)
(* LocalVCS (src/LocalVCS.py): the backup, restore, delete and compare     *)
(* engines over one file system.                                           *)
(*                                                                         *)
(* A path is a sequence of components, a component a sequence of string    *)
(* tokens (<<"BACKUP_", "1", ".zip">> is the file name BACKUP_1.zip), so   *)
(* that str.replace('.zip', ...) is modelled on the tokens of the whole    *)
(* path.  The file system is `fs` (file path -> content) and `dirs` (the   *)
(* directories that exist).  A content stands for the bytes of the file.   *)
(***************************************************************************)
EXTENDS Integers, Sequences, FiniteSets, TLC

\* ------------------------------------------------------------- bounds
\* the operations of one run: backups, restores and deletes the user starts,
\* and edits the user makes to the source tree
MaxOps == 3

\* the threads one run can start
Threads == 1..MaxOps

VARIABLES
    fs,          \* files on disk: path -> content
    dirs,        \* directories on disk
    unreadable,  \* files whose open() for reading raises
    clock,       \* the second datetime.datetime.now() last showed
    target_dir,  \* BackupRestoreApp.target_dir
    backup_btn,  \* BackupRestoreApp.backup_btn.isEnabled()
    cards,       \* names listed by the last load_backups()
    bk,          \* BackupThread objects, by start order
    rs,          \* RestoreThread objects, by start order
    dl,          \* delete_backup in progress
    nOps,        \* operations started so far
    treeA,       \* compare: first tree  [files, unreadable]
    treeB,       \* compare: second tree [files, unreadable]
    cmp,         \* compare: [pc, hash, legacy] results
    dialog,      \* the last QMessageBox.critical start_backup showed
    compare_btn, \* BackupRestoreApp.compare_btn.isEnabled()
    ct,          \* BackupRestoreApp.compare_thread
    lines1,      \* diff viewer: the file's lines in the first backup
    lines2,      \* diff viewer: the file's lines in the second backup
    diff,        \* diff viewer: what get_file_diff returned
    widget       \* diff viewer: the lines appended to the text widget

vars == <<fs, dirs, unreadable, clock, target_dir, backup_btn, cards, bk, rs,
          dl, nOps, treeA, treeB, cmp, dialog, compare_btn, ct, lines1, lines2,
          diff, widget>>
fsVars == <<fs, dirs, unreadable, clock, target_dir, backup_btn, cards, bk, rs,
            dl, nOps>>
cmpVars == <<treeA, treeB, cmp>>
uiVars == <<dialog, compare_btn, ct>>
diffVars == <<lines1, lines2, diff, widget>>

\* ------------------------------------------------------------- paths
\* BackupRestoreApp.source_dir
source_dir == << <<"src">> >>

\* a directory that is not selected: the empty string
NoPath == <<>>

\* the placements of the target directory relative to the source directory,
\* and a target directory whose own name contains ".zip"
TargetDirs == { << <<"store">> >>, source_dir, source_dir \o << <<"store">> >>,
                << <<"old", ".zip">> >> }

\* relative paths of the user's files in the source tree
RelFiles == { << <<"a">> >>, << <<"d">>, <<"a">> >> }

\* file contents (byte strings)
Contents == { <<1>>, <<2>> }

File(d) == [kind |-> "file", data |-> d]

IsPrefix(d, p) == Len(d) <= Len(p) /\ SubSeq(p, 1, Len(d)) = d

\* the entries strictly below directory d in the path set P
Below(P, d) == {p \in P : IsPrefix(d, p) /\ Len(p) > Len(d)}

\* os.path.relpath(p, d) for p below d
RelPath(p, d) == SubSeq(p, Len(d) + 1, Len(p))

\* os.path.join(d, rel)
Join(d, rel) == d \o rel

\* os.path.dirname(p)
Dirname(p) == SubSeq(p, 1, Len(p) - 1)

\* the directories a path lies in
Ancestors(p) == {SubSeq(p, 1, k) : k \in 1..(Len(p) - 1)}

\* str.replace(old, new) on a path: every occurrence in every component
Replace(p, old, new) ==
    [i \in 1..Len(p) |->
        [j \in 1..Len(p[i]) |-> IF p[i][j] = old THEN new ELSE p[i][j]]]

Restrict(f, S) == [p \in S |-> f[p]]

\* what a walk over the files F has handled when it raises: nothing yet, or
\* all but the file it raises on
Partial(F) == IF F = {} THEN {} ELSE {{}} \cup {F \ {x} : x \in F}

\* the files found by os.walk(d), as relative path -> content
RelTree(f, d) == [r \in {RelPath(p, d) : p \in Below(DOMAIN f, d)} |-> f[Join(d, r)]]

\* shutil.rmtree(d)
RmTreeFiles(f, d) == Restrict(f, DOMAIN f \ Below(DOMAIN f, d))
RmTreeDirs(D, d) == D \ ({d} \cup Below(D, d))

\* os.makedirs(d)
MakeDirs(D, d) == D \cup {d} \cup Ancestors(d)

\* writing the tree t (relative path -> content) below directory d
PutTree(f, d, t) ==
    [p \in DOMAIN f \cup {Join(d, r) : r \in DOMAIN t} |->
        IF IsPrefix(d, p) /\ RelPath(p, d) \in DOMAIN t THEN t[RelPath(p, d)] ELSE f[p]]
PutTreeDirs(D, d, t) ==
    D \cup {d} \cup UNION {Ancestors(Join(d, r)) : r \in DOMAIN t}

\* os.rename(s, d) of a file or a directory tree
RenameFiles(f, s, d) ==
    [p \in {q \in DOMAIN f : ~IsPrefix(s, q)} \cup {Join(d, RelPath(q, s)) : q \in {x \in DOMAIN f : IsPrefix(s, x)}} |->
        IF IsPrefix(d, p) /\ Join(s, RelPath(p, d)) \in DOMAIN f
        THEN f[Join(s, RelPath(p, d))] ELSE f[p]]
RenameDirs(D, s, d) ==
    {q \in D : ~IsPrefix(s, q)} \cup {Join(d, RelPath(q, s)) : q \in {x \in D : IsPrefix(s, x)}}

\* ------------------------------------------------------------- BackupThread
\* the "unavailable" marker: calculate_file_hash returns None
None == [none |-> TRUE]

\* hashlib.md5 over the chunks of the file: a digest of all its bytes; equal
\* bytes give equal digests and (no collisions) different bytes different ones
Md5(content) == [md5 |-> content]

\* BackupThread.calculate_file_hash
calculate_file_hash(f, unr, p) == IF p \in unr THEN None ELSE Md5(f[p])

\* strftime("%m_%d_%Y_%H_%M_%S") of the clock, f"BACKUP_{timestamp}"
BackupName(t) == <<"BACKUP_", ToString(t)>>

\* os.path.join(target_dir, backup_name + ".zip")
BackupPath(tdir, t) == Join(tdir, << BackupName(t) \o <<".zip">> >>)

\* backup_path.replace('.zip', '_hashes.json')
HashFilePath(path) == Replace(path, ".zip", "_hashes.json")

\* backup_path.replace('.zip', '_notes.txt')
NotesFilePath(path) == Replace(path, ".zip", "_notes.txt")

\* an archive on disk: "open" while zipfile.ZipFile(..., 'w') is writing it (no
\* central directory yet), "partial" when the with-block closed it on an
\* exception, "full" when every walked file was written and it was closed
Zip(entries, state) == [kind |-> "zip", entries |-> entries, state |-> state]

\* a hash_data whose total_files is not counted
HashDataNoCount(name, hashes, src) ==
    [kind |-> "json", backup_name |-> name, file_hashes |-> hashes, total_files |-> 0,
     source_directory |-> src]

\* the hash_data dictionary dumped to the manifest (created_at, which nothing
\* reads back, is left out)
HashData(name, hashes, src) ==
    [kind |-> "json", backup_name |-> name, file_hashes |-> hashes, total_files |-> Cardinality(DOMAIN hashes),
     source_directory |-> src]

\* the signals a thread object has emitted
NoEmits == [completed |-> 0, failed |-> 0]

\* a BackupThread; `tree` and `unr` remember the source tree and its unreadable
\* files as start_backup found them, `cause` what raised when it failed,
\* `archived` the entries its archiving walk wrote
IdleBackup == [pc |-> "idle", t |-> 0, path |-> <<>>, file_hashes |-> <<>>,
               result |-> "none", cause |-> "none", tree |-> <<>>, unr |-> {},
               emits |-> NoEmits, archived |-> <<>>]


\* not self.source_dir or not self.target_dir, negated
DirectoriesSelected(src, tdir) == src # NoPath /\ tdir # NoPath

\* an existence test that always answers yes
ExistsAlways(f, D, p) == TRUE

\* os.path.exists(p)
Exists(f, D, p) == p \in D \/ p \in DOMAIN f

\* start_backup: the checks, the button, and BackupThread.run's name derivation
\* from the clock, which shows the second it last showed or the next one
StartBackup(i) ==
    /\ bk[i].pc = "idle"
    /\ \A j \in 1..(i - 1) : bk[j].pc # "idle"
    /\ dl.pc = "idle"
    /\ nOps < MaxOps
    /\ backup_btn
    /\ DirectoriesSelected(source_dir, target_dir)
    /\ Exists(fs, dirs, source_dir)
    /\ nOps' = nOps + 1
    /\ backup_btn' = FALSE
    /\ \E t \in {clock, clock + 1} :
          /\ clock' = t
          /\ bk' = [bk EXCEPT ![i] = [pc |-> "hash", t |-> t,
                                      path |-> BackupPath(target_dir, t),
                                      file_hashes |-> <<>>, result |-> "none",
                                      cause |-> "none", emits |-> NoEmits,
                                      archived |-> <<>>,
                                      tree |-> RelTree(fs, source_dir),
                                      unr |-> {RelPath(p, source_dir) :
                                                  p \in Below(unreadable, source_dir)}]]
    /\ UNCHANGED <<fs, dirs, unreadable, target_dir, cards, rs, dl, cmpVars, uiVars, diffVars>>

\* start_backup when a check fails: the error dialog, and return
StartBackupRejected ==
    /\ dl.pc = "idle"
    /\ nOps < MaxOps
    /\ backup_btn
    /\ ~(DirectoriesSelected(source_dir, target_dir) /\ Exists(fs, dirs, source_dir))
    /\ nOps' = nOps + 1
    /\ dialog' = IF ~DirectoriesSelected(source_dir, target_dir)
                 THEN "Please select both source and target directories"
                 ELSE "Source directory does not exist"
    /\ UNCHANGED <<fs, dirs, unreadable, clock, target_dir, backup_btn, cards,
                   bk, rs, dl, compare_btn, ct, cmpVars, diffVars>>

\* the hashing walk
BackupHash(i) ==
    /\ bk[i].pc = "hash"
    /\ bk' = [bk EXCEPT ![i].pc = "open",
                        ![i].file_hashes =
                            [r \in DOMAIN RelTree(fs, source_dir) |->
                                calculate_file_hash(fs, unreadable, Join(source_dir, r))]]
    /\ UNCHANGED <<fs, dirs, unreadable, clock, target_dir, backup_btn, cards,
                   rs, dl, nOps, cmpVars, uiVars, diffVars>>

\* an except clause that swallows the exception without a signal
BackupFailNoSignal(i, cause) ==
    bk' = [bk EXCEPT ![i].pc = "emitted", ![i].result = "failed", ![i].cause = cause]

\* backup_failed.emit from the except clause: "read" when reading a source
\* file raised, "io" when writing to the target directory did
BackupFail(i, cause) ==
    bk' = [bk EXCEPT ![i].pc = "emitted", ![i].result = "failed", ![i].cause = cause,
                     ![i].emits.failed = @ + 1]

\* zipfile.ZipFile(backup_path, 'w'): creates or truncates the archive; raises
\* when the target directory is missing or the file cannot be created
BackupOpenZip(i) ==
    /\ bk[i].pc = "open"
    /\ \/ /\ target_dir \in dirs
          /\ fs' = PutTree(fs, Dirname(bk[i].path),
                           (<< bk[i].path[Len(bk[i].path)] >> :> Zip(<<>>, "open")))
          /\ bk' = [bk EXCEPT ![i].pc = "write"]
       \/ /\ fs' = fs
          /\ BackupFail(i, "io")
    /\ UNCHANGED <<dirs, unreadable, clock, target_dir, backup_btn, cards, rs,
                   dl, nOps, cmpVars, uiVars, diffVars>>

\* the archiving walk: zipf.write of every file os.walk finds now, the archive
\* itself included when it lies below the source directory; the with-block
\* closes the archive, also when a write raises (an archive unlinked
\* meanwhile stays unlinked)
BackupWriteZip(i) ==
    /\ bk[i].pc = "write"
    /\ LET tree == RelTree(fs, source_dir)
           bad == {r \in DOMAIN tree : Join(source_dir, r) \in unreadable}
       IN  \/ /\ bad = {}
              /\ fs' = IF bk[i].path \in DOMAIN fs
                       THEN [fs EXCEPT ![bk[i].path] = Zip(tree, "full")]
                       ELSE fs
              /\ bk' = [bk EXCEPT ![i].pc = "manifest", ![i].archived = tree]
           \/ /\ \E S \in Partial(DOMAIN tree) :
                    /\ S \cap bad = {}
                    /\ fs' = IF bk[i].path \in DOMAIN fs
                             THEN [fs EXCEPT ![bk[i].path] = Zip(Restrict(tree, S), "partial")]
                             ELSE fs
              /\ BackupFail(i, IF bad = {} THEN "io" ELSE "read")
    /\ UNCHANGED <<dirs, unreadable, clock, target_dir, backup_btn, cards, rs,
                   dl, nOps, cmpVars, uiVars, diffVars>>

\* open(hash_file_path, 'w'), json.dump, backup_completed.emit; open raises
\* when the directory of hash_file_path does not exist
BackupManifest(i) ==
    /\ bk[i].pc = "manifest"
    /\ \/ /\ Dirname(HashFilePath(bk[i].path)) \in dirs
          /\ LET hp == HashFilePath(bk[i].path)
             IN  fs' = PutTree(fs, Dirname(hp),
                               (<< hp[Len(hp)] >> :>
                                   HashData(BackupName(bk[i].t), bk[i].file_hashes,
                                            source_dir)))
          /\ bk' = [bk EXCEPT ![i].pc = "emitted", ![i].result = "completed",
                              ![i].emits.completed = @ + 1]
       \/ /\ fs' = fs
          /\ BackupFail(i, "io")
    /\ UNCHANGED <<dirs, unreadable, clock, target_dir, backup_btn, cards, rs,
                   dl, nOps, cmpVars, uiVars, diffVars>>

\* load_backups: the names in target_dir that start with BACKUP_ and end
\* with .zip
Listing(f, D, tdir) ==
    IF tdir \notin D THEN {}
    ELSE {p[Len(p)] : p \in {q \in DOMAIN f : Dirname(q) = tdir
                                /\ q[Len(q)][1] = "BACKUP_"
                                /\ q[Len(q)][Len(q[Len(q)])] = ".zip"}}

\* backup_completed / backup_failed, run by the GUI thread on the signal
BackupCallback(i) ==
    /\ bk[i].pc = "emitted"
    /\ dl.pc = "idle"
    /\ bk' = [bk EXCEPT ![i].pc = "done"]
    /\ backup_btn' = TRUE
    /\ cards' = IF bk[i].result = "completed" THEN Listing(fs, dirs, target_dir)
                ELSE cards
    /\ UNCHANGED <<fs, dirs, unreadable, clock, target_dir, rs, dl, nOps, cmpVars, uiVars, diffVars>>

\* ------------------------------------------------------------- RestoreThread
IdleRestore == [pc |-> "idle", path |-> <<>>, dest |-> <<>>, items |-> {},
                result |-> "none", step |-> "none", prior |-> <<>>,
                emits |-> NoEmits, archive |-> <<>>]

\* get_backup_source_directory: the manifest's source_directory, '' without one
get_backup_source_directory(f, path) ==
    IF HashFilePath(path) \in DOMAIN f /\ f[HashFilePath(path)].kind = "json"
    THEN f[HashFilePath(path)].source_directory
    ELSE <<>>

\* os.path.join(os.path.dirname(backup_path), "temp_restore")
TempDir(path) == Join(Dirname(path), << <<"temp_restore">> >>)

\* start_restore of a listed backup: the destination, the button, the thread.
\* `prior` remembers the destination's files as the restore found them.
StartRestore(i, n) ==
    /\ rs[i].pc = "idle"
    /\ \A j \in 1..(i - 1) : rs[j].pc # "idle"
    /\ dl.pc = "idle"
    /\ nOps < MaxOps
    /\ n \in cards
    /\ nOps' = nOps + 1
    /\ LET path == Join(target_dir, <<n>>)
           orig == get_backup_source_directory(fs, path)
           dest == IF orig = <<>> THEN source_dir ELSE orig
       IN  rs' = [rs EXCEPT ![i] = [pc |-> "prep", path |-> path, dest |-> dest,
                                    items |-> {}, result |-> "none",
                                    step |-> "none", emits |-> NoEmits,
                                    archive |-> <<>>,
                                    prior |-> RelTree(fs, dest)]]
    /\ backup_btn' = FALSE
    /\ UNCHANGED <<fs, dirs, unreadable, clock, target_dir, cards, bk, dl,
                   cmpVars, uiVars, diffVars>>

\* restore_failed.emit from the except clause; `step` remembers where it raised
RestoreFail(i, at) ==
    rs' = [rs EXCEPT ![i].pc = "emitted", ![i].result = "failed", ![i].step = at,
                     ![i].emits.failed = @ + 1]

\* if os.path.exists(temp_dir): shutil.rmtree(temp_dir); os.makedirs(temp_dir)
RestorePrep(i) ==
    /\ rs[i].pc = "prep"
    /\ LET temp == TempDir(rs[i].path)
       IN  /\ fs' = RmTreeFiles(fs, temp)
           /\ dirs' = MakeDirs(RmTreeDirs(dirs, temp), temp)
           /\ unreadable' = unreadable \ Below(unreadable, temp)
    /\ rs' = [rs EXCEPT ![i].pc = "extract"]
    /\ UNCHANGED <<clock, target_dir, backup_btn, cards, bk, dl, nOps, cmpVars, uiVars, diffVars>>

\* zipfile.ZipFile(path, 'r') succeeds on an archive with a central directory
ReadableZip(f, path) ==
    /\ path \in DOMAIN f
    /\ f[path].kind = "zip"
    /\ f[path].state # "open"

\* zipf.extractall(temp_dir): every entry, or (on a bad archive or an I/O
\* error) some of them and an exception; `archive` remembers the entries read
RestoreExtract(i) ==
    /\ rs[i].pc = "extract"
    /\ LET temp == TempDir(rs[i].path)
           ok == ReadableZip(fs, rs[i].path)
           entries == IF ok THEN fs[rs[i].path].entries ELSE <<>>
       IN  \/ /\ ok
              /\ fs' = PutTree(fs, temp, entries)
              /\ dirs' = PutTreeDirs(dirs, temp, entries)
              /\ rs' = [rs EXCEPT ![i].pc = "remove", ![i].archive = entries]
           \/ /\ \E S \in (IF ok THEN Partial(DOMAIN entries) ELSE {{}}) :
                    /\ fs' = PutTree(fs, temp, Restrict(entries, S))
                    /\ dirs' = IF S = {} THEN dirs
                               ELSE PutTreeDirs(dirs, temp, Restrict(entries, S))
              /\ RestoreFail(i, "extract")
    /\ UNCHANGED <<unreadable, clock, target_dir, backup_btn, cards, bk, dl,
                   nOps, cmpVars, uiVars, diffVars>>

\* if os.path.exists(self.source_dir): shutil.rmtree(self.source_dir)
RestoreRemove(i) ==
    /\ rs[i].pc = "remove"
    /\ LET dest == rs[i].dest
       IN  IF dest \in dirs
           THEN /\ fs' = RmTreeFiles(fs, dest)
                /\ dirs' = RmTreeDirs(dirs, dest)
                /\ unreadable' = unreadable \ Below(unreadable, dest)
           ELSE UNCHANGED <<fs, dirs, unreadable>>
    /\ rs' = [rs EXCEPT ![i].pc = "list"]
    /\ UNCHANGED <<clock, target_dir, backup_btn, cards, bk, dl, nOps, cmpVars, uiVars, diffVars>>

\* os.listdir(d): the names directly inside d
ListDir(f, D, d) == {SubSeq(p, 1, Len(d) + 1) : p \in Below(DOMAIN f \cup D, d)}

\* shutil.move(s, d): into d when d is a directory, onto d otherwise
MoveTarget(D, s, d) == IF d \in D THEN Join(d, << s[Len(s)] >>) ELSE d
MoveRaises(f, D, s, d) ==
    \/ s \notin DOMAIN f \cup D
    \/ d \in D /\ MoveTarget(D, s, d) \in DOMAIN f \cup D

\* extracted_items = os.listdir(temp_dir); a single directory is moved onto
\* the destination, otherwise the destination is created for the items
RestoreList(i) ==
    /\ rs[i].pc = "list"
    /\ LET temp == TempDir(rs[i].path)
           dest == rs[i].dest
           items == ListDir(fs, dirs, temp)
           one == CHOOSE x \in items : TRUE
       IN  IF temp \notin dirs
           THEN /\ RestoreFail(i, "list")
                /\ UNCHANGED <<fs, dirs>>
           ELSE IF Cardinality(items) = 1 /\ one \in dirs
           THEN IF MoveRaises(fs, dirs, one, dest)
                THEN /\ RestoreFail(i, "move")
                     /\ UNCHANGED <<fs, dirs>>
                ELSE /\ fs' = RenameFiles(fs, one, MoveTarget(dirs, one, dest))
                     /\ dirs' = RenameDirs(dirs, one, MoveTarget(dirs, one, dest))
                     /\ rs' = [rs EXCEPT ![i].pc = "cleanup"]
           ELSE /\ dirs' = MakeDirs(dirs, dest)
                /\ fs' = fs
                /\ rs' = [rs EXCEPT ![i].pc = IF items = {} THEN "cleanup" ELSE "move",
                                    ![i].items = items]
    /\ UNCHANGED <<unreadable, clock, target_dir, backup_btn, cards, bk, dl,
                   nOps, cmpVars, uiVars, diffVars>>

\* one turn of `for item in extracted_items: shutil.move(...)`, which can raise
RestoreMoveItem(i) ==
    /\ rs[i].pc = "move"
    /\ \E item \in rs[i].items :
          \/ /\ ~MoveRaises(fs, dirs, item, rs[i].dest)
             /\ fs' = RenameFiles(fs, item, MoveTarget(dirs, item, rs[i].dest))
             /\ dirs' = RenameDirs(dirs, item, MoveTarget(dirs, item, rs[i].dest))
             /\ rs' = [rs EXCEPT ![i].items = rs[i].items \ {item},
                                 ![i].pc = IF rs[i].items = {item} THEN "cleanup"
                                           ELSE "move"]
          \/ /\ RestoreFail(i, "move")
             /\ UNCHANGED <<fs, dirs>>
    /\ UNCHANGED <<unreadable, clock, target_dir, backup_btn, cards, bk, dl,
                   nOps, cmpVars, uiVars, diffVars>>

\* shutil.rmtree(temp_dir); restore_completed.emit
RestoreCleanup(i) ==
    /\ rs[i].pc = "cleanup"
    /\ LET temp == TempDir(rs[i].path)
       IN  IF temp \in dirs
           THEN /\ fs' = RmTreeFiles(fs, temp)
                /\ dirs' = RmTreeDirs(dirs, temp)
                /\ rs' = [rs EXCEPT ![i].pc = "emitted", ![i].result = "completed",
                                    ![i].emits.completed = @ + 1]
           ELSE /\ RestoreFail(i, "cleanup")
                /\ UNCHANGED <<fs, dirs>>
    /\ UNCHANGED <<unreadable, clock, target_dir, backup_btn, cards, bk, dl,
                   nOps, cmpVars, uiVars, diffVars>>

\* restore_completed / restore_failed, run by the GUI thread on the signal
RestoreCallback(i) ==
    /\ rs[i].pc = "emitted"
    /\ dl.pc = "idle"
    /\ rs' = [rs EXCEPT ![i].pc = "done"]
    /\ backup_btn' = TRUE
    /\ UNCHANGED <<fs, dirs, unreadable, clock, target_dir, cards, bk, dl,
                   nOps, cmpVars, uiVars, diffVars>>

\* ------------------------------------------------------------- delete_backup
RemoveFile(f, p) == Restrict(f, DOMAIN f \ {p})

\* delete_backup: where it is, the backup it was last called for, and whether
\* that call ended in its except clause ("Failed to delete backup")
IdleDelete == [pc |-> "idle", path |-> <<>>, error |-> FALSE]

\* delete_backup, confirmed: os.remove(backup_path) raises when the archive is
\* gone, and the handler ends in its except clause
DeleteArchive(n) ==
    /\ dl.pc = "idle"
    /\ nOps < MaxOps
    /\ n \in cards
    /\ nOps' = nOps + 1
    /\ LET path == Join(target_dir, <<n>>)
       IN  IF path \in DOMAIN fs
           THEN /\ fs' = RemoveFile(fs, path)
                /\ dl' = [pc |-> "hash", path |-> path, error |-> FALSE]
           ELSE /\ fs' = fs
                /\ dl' = [pc |-> "idle", path |-> path, error |-> TRUE]
    /\ UNCHANGED <<dirs, unreadable, clock, target_dir, backup_btn, cards, bk,
                   rs, cmpVars, uiVars, diffVars>>

\* if os.path.exists(hash_file_path): os.remove(hash_file_path)
DeleteHashFile ==
    /\ dl.pc = "hash"
    /\ fs' = RemoveFile(fs, HashFilePath(dl.path))
    /\ dl' = [dl EXCEPT !.pc = "notes"]
    /\ UNCHANGED <<dirs, unreadable, clock, target_dir, backup_btn, cards, bk,
                   rs, nOps, cmpVars, uiVars, diffVars>>

\* if os.path.exists(notes_file_path): os.remove(notes_file_path); load_backups()
DeleteNotesFile ==
    /\ dl.pc = "notes"
    /\ fs' = RemoveFile(fs, NotesFilePath(dl.path))
    /\ cards' = Listing(fs', dirs, target_dir)
    /\ dl' = [dl EXCEPT !.pc = "idle"]
    /\ UNCHANGED <<dirs, unreadable, clock, target_dir, backup_btn, bk, rs,
                   nOps, cmpVars, uiVars, diffVars>>

\* ------------------------------------------------------------- environment
\* the user writes or deletes a file of the source tree (not between the
\* start of a restore and its report)
Edit ==
    /\ nOps < MaxOps
    /\ source_dir \in dirs
    /\ \A i \in DOMAIN rs : rs[i].pc \in {"idle", "done"}
    /\ nOps' = nOps + 1
    /\ \E r \in RelFiles :
          \/ \E d \in Contents :
                /\ Join(source_dir, r) \notin unreadable
                /\ (Join(source_dir, r) \in DOMAIN fs => fs[Join(source_dir, r)] # File(d))
                /\ fs' = PutTree(fs, source_dir, (r :> File(d)))
                /\ dirs' = PutTreeDirs(dirs, source_dir, (r :> File(d)))
                /\ unreadable' = unreadable
          \/ /\ Join(source_dir, r) \in DOMAIN fs
             /\ fs' = RemoveFile(fs, Join(source_dir, r))
             /\ dirs' = {d \in dirs : \/ Len(d) <= Len(source_dir)
                                      \/ d \notin Ancestors(Join(source_dir, r))
                                      \/ Below(DOMAIN fs', d) # {}}
             /\ unreadable' = unreadable \ {Join(source_dir, r)}
    /\ UNCHANGED <<clock, target_dir, backup_btn, cards, bk, rs, dl, cmpVars, uiVars, diffVars>>

\* ------------------------------------------------------------- specification
\* the trees the source directory can hold at the start
Trees == UNION {[S -> {File(<<1>>)}] : S \in SUBSET RelFiles}

IdleCompare == [pc |-> "idle"]
EmptyTree == [files |-> <<>>, unreadable |-> {}]


\* ------------------------------------------------------------- CompareThread
\* list(s) and the set of a list's items
RECURSIVE SetToList(_)
SetToList(S) == IF S = {} THEN <<>>
                ELSE LET x == CHOOSE y \in S : TRUE
                     IN  <<x>> \o SetToList(S \ {x})
Items(l) == {l[k] : k \in 1..Len(l)}

\* the loop with the test inverted: equal digests reported as modified
RECURSIVE HashLoopInverted(_, _, _, _)
HashLoopInverted(todo, sh, ch, differences) ==
    IF todo = {} THEN differences
    ELSE LET file == CHOOSE x \in todo : TRUE
         IN  HashLoopInverted(todo \ {file}, sh, ch,
                 IF sh[file] = ch[file]
                 THEN [differences EXCEPT !.modified = Append(@, file)]
                 ELSE [differences EXCEPT !.unchanged = Append(@, file)])

\* `for file in common_files:` of get_hash_based_differences, appending each
\* file to 'modified' or to 'unchanged'
RECURSIVE HashLoop(_, _, _, _)
HashLoop(todo, sh, ch, differences) ==
    IF todo = {} THEN differences
    ELSE LET file == CHOOSE x \in todo : TRUE
         IN  HashLoop(todo \ {file}, sh, ch,
                 IF sh[file] # ch[file]
                 THEN [differences EXCEPT !.modified = Append(@, file)]
                 ELSE [differences EXCEPT !.unchanged = Append(@, file)])

\* get_hash_based_differences that never fills 'removed'
get_hash_based_differences_no_removed(source_hashes, compare_hashes) ==
    LET source_files == DOMAIN source_hashes.file_hashes
        compare_files == DOMAIN compare_hashes.file_hashes
    IN  HashLoop(source_files \cap compare_files,
                 source_hashes.file_hashes, compare_hashes.file_hashes,
                 [added |-> SetToList(compare_files \ source_files),
                  removed |-> <<>>,
                  modified |-> <<>>, unchanged |-> <<>>])

\* get_hash_based_differences with 'added' taken as all of compare_files
get_hash_based_differences_all_added(source_hashes, compare_hashes) ==
    LET source_files == DOMAIN source_hashes.file_hashes
        compare_files == DOMAIN compare_hashes.file_hashes
    IN  HashLoop(source_files \cap compare_files,
                 source_hashes.file_hashes, compare_hashes.file_hashes,
                 [added |-> SetToList(compare_files),
                  removed |-> SetToList(source_files \ compare_files),
                  modified |-> <<>>, unchanged |-> <<>>])

\* CompareThread.get_hash_based_differences on two loaded manifests
get_hash_based_differences(source_hashes, compare_hashes) ==
    LET source_files == DOMAIN source_hashes.file_hashes
        compare_files == DOMAIN compare_hashes.file_hashes
    IN  HashLoop(source_files \cap compare_files,
                 source_hashes.file_hashes, compare_hashes.file_hashes,
                 [added |-> SetToList(compare_files \ source_files),
                  removed |-> SetToList(source_files \ compare_files),
                  modified |-> <<>>, unchanged |-> <<>>])

\* f.read(8192)
ChunkSize == 8192
Min(a, b) == IF a <= b THEN a ELSE b
ReadChunk(data, pos) == SubSeq(data, pos + 1, Min(pos + ChunkSize, Len(data)))

\* the `while True:` of files_differ from offset pos
RECURSIVE ChunksDiffer(_, _, _)
ChunksDiffer(d1, d2, pos) ==
    IF ReadChunk(d1, pos) # ReadChunk(d2, pos) THEN TRUE
    ELSE IF ReadChunk(d1, pos) = <<>> THEN FALSE
    ELSE ChunksDiffer(d1, d2, pos + ChunkSize)

\* CompareThread.files_differ of file r in two extracted trees: sizes first,
\* then the bytes; any exception counts as different
files_differ(t1, t2, r) ==
    IF Len(t1.files[r].data) # Len(t2.files[r].data) THEN TRUE
    ELSE IF r \in t1.unreadable \cup t2.unreadable THEN TRUE
    ELSE ChunksDiffer(t1.files[r].data, t2.files[r].data, 0)

\* `for file in common_files:` of get_directory_differences
RECURSIVE DirLoop(_, _, _, _)
DirLoop(todo, t1, t2, differences) ==
    IF todo = {} THEN differences
    ELSE LET file == CHOOSE x \in todo : TRUE
         IN  DirLoop(todo \ {file}, t1, t2,
                 IF files_differ(t1, t2, file)
                 THEN [differences EXCEPT !.modified = Append(@, file)]
                 ELSE [differences EXCEPT !.unchanged = Append(@, file)])

\* CompareThread.get_directory_differences on two extracted trees
get_directory_differences(t1, t2) ==
    LET files1 == DOMAIN t1.files
        files2 == DOMAIN t2.files
    IN  DirLoop(files1 \cap files2, t1, t2,
                [added |-> SetToList(files2 \ files1),
                 removed |-> SetToList(files1 \ files2),
                 modified |-> <<>>, unchanged |-> <<>>])

\* ------------------------------------------------------------- CompareThread.run
NoDifferences == [added |-> <<>>, removed |-> <<>>, modified |-> <<>>, unchanged |-> <<>>]

\* a CompareThread; `legacy` remembers the path it took, `cause` what raised,
\* `seen` the archives and manifests as start_compare found them, `prev` and
\* `prevPair` the result and the backups of the last compare that completed
IdleCompareThread ==
    [pc |-> "idle", source_backup |-> <<>>, compare_backup |-> <<>>,
     differences |-> NoDifferences, result |-> "none", cause |-> "none",
     legacy |-> FALSE, emits |-> NoEmits, seen |-> <<>>,
     prev |-> NoDifferences, prevPair |-> <<>>]

\* os.path.join(self.target_dir, "temp_compare_source" / "temp_compare_target")
TempCompareSource(tdir) == Join(tdir, << <<"temp_compare_source">> >>)
TempCompareTarget(tdir) == Join(tdir, << <<"temp_compare_target">> >>)

\* the archives and manifests of the two backups of a compare
ComparedPaths(tdir, a, b) ==
    {Join(tdir, <<a>>), Join(tdir, <<b>>),
     HashFilePath(Join(tdir, <<a>>)), HashFilePath(Join(tdir, <<b>>))}

\* start_compare with two different listed backups selected in the combos
StartCompare(a, b) ==
    /\ compare_btn
    /\ nOps < MaxOps
    /\ a \in cards
    /\ b \in cards
    /\ a # b
    /\ nOps' = nOps + 1
    /\ compare_btn' = FALSE
    /\ ct' = [pc |-> "check", source_backup |-> a, compare_backup |-> b,
              differences |-> NoDifferences, result |-> "none", cause |-> "none",
              legacy |-> FALSE, emits |-> NoEmits,
              seen |-> Restrict(fs, ComparedPaths(target_dir, a, b) \cap DOMAIN fs),
              prev |-> IF ct.result = "completed" THEN ct.differences ELSE ct.prev,
              prevPair |-> IF ct.result = "completed"
                           THEN <<ct.source_backup, ct.compare_backup>>
                           ELSE ct.prevPair]
    /\ UNCHANGED <<fs, dirs, unreadable, clock, target_dir, backup_btn, cards,
                   bk, rs, dl, dialog, cmpVars, diffVars>>

\* compare_completed.emit / compare_failed.emit at the end of run
CompareEmit(differences, result, cause) ==
    ct' = [ct EXCEPT !.pc = "emitted", !.differences = differences,
                     !.result = result, !.cause = cause,
                     !.emits = IF result = "completed"
                               THEN [@ EXCEPT !.completed = @ + 1]
                               ELSE [@ EXCEPT !.failed = @ + 1]]

\* the test with `and` for `or`: the legacy path only when both are missing
CompareCheckBoth ==
    /\ ct.pc = "check"
    /\ LET sp == HashFilePath(Join(target_dir, <<ct.source_backup>>))
           cp == HashFilePath(Join(target_dir, <<ct.compare_backup>>))
       IN  ct' = IF sp \notin DOMAIN fs /\ cp \notin DOMAIN fs
                 THEN [ct EXCEPT !.pc = "extract", !.legacy = TRUE]
                 ELSE [ct EXCEPT !.pc = "load"]
    /\ UNCHANGED <<fsVars, compare_btn, dialog, cmpVars, diffVars>>

\* if not os.path.exists(source_hash_path) or not os.path.exists(compare_hash_path)
CompareCheck ==
    /\ ct.pc = "check"
    /\ LET sp == HashFilePath(Join(target_dir, <<ct.source_backup>>))
           cp == HashFilePath(Join(target_dir, <<ct.compare_backup>>))
       IN  ct' = IF sp \notin DOMAIN fs \/ cp \notin DOMAIN fs
                 THEN [ct EXCEPT !.pc = "extract", !.legacy = TRUE]
                 ELSE [ct EXCEPT !.pc = "load"]
    /\ UNCHANGED <<fsVars, compare_btn, dialog, cmpVars, diffVars>>

\* json.load of both manifests (it raises when one was removed meanwhile),
\* get_hash_based_differences, compare_completed.emit
CompareLoad ==
    /\ ct.pc = "load"
    /\ LET sp == HashFilePath(Join(target_dir, <<ct.source_backup>>))
           cp == HashFilePath(Join(target_dir, <<ct.compare_backup>>))
       IN  IF sp \in DOMAIN fs /\ cp \in DOMAIN fs
           THEN CompareEmit(get_hash_based_differences(fs[sp], fs[cp]),
                            "completed", "none")
           ELSE CompareEmit(NoDifferences, "failed", "gone")
    /\ UNCHANGED <<fsVars, compare_btn, dialog, cmpVars, diffVars>>

\* a cleanup that removes everything in the target directory
CompareCleanFilesAll(f, tdir) == RmTreeFiles(f, tdir)

\* compare_backups_legacy with a cleanup that removes the first temporary
\* directory only
CompareCleanDirsSourceOnly(D, tdir) == RmTreeDirs(D, TempCompareSource(tdir))

\* the file system without the two temporary directories
CompareCleanFiles(f, tdir) ==
    RmTreeFiles(RmTreeFiles(f, TempCompareSource(tdir)), TempCompareTarget(tdir))
CompareCleanDirs(D, tdir) ==
    RmTreeDirs(RmTreeDirs(D, TempCompareSource(tdir)), TempCompareTarget(tdir))

\* compare_backups_legacy up to the extraction: the temporary directories are
\* made afresh and both archives extracted; when an archive cannot be read
\* ("archive") or an extraction raises ("io"), on the first archive or on the
\* second, control passes to the except clause with what was extracted so far
CompareExtract ==
    /\ ct.pc = "extract"
    /\ LET ts == TempCompareSource(target_dir)
           tc == TempCompareTarget(target_dir)
           sp == Join(target_dir, <<ct.source_backup>>)
           cp == Join(target_dir, <<ct.compare_backup>>)
           ok == ReadableZip(fs, sp) /\ ReadableZip(fs, cp)
           f0 == CompareCleanFiles(fs, target_dir)
           D0 == CompareCleanDirs(MakeDirs(MakeDirs(dirs, ts), tc), target_dir)
           D1 == D0 \cup {ts, tc}
       IN  \/ /\ ok
              /\ fs' = PutTree(PutTree(f0, ts, fs[sp].entries), tc, fs[cp].entries)
              /\ dirs' = PutTreeDirs(PutTreeDirs(D0, ts, fs[sp].entries), tc,
                                     fs[cp].entries)
              /\ ct' = [ct EXCEPT !.pc = "dirs"]
           \/ /\ \E S \in (IF ReadableZip(fs, sp)
                             THEN Partial(DOMAIN fs[sp].entries) ELSE {{}}) :
                    /\ fs' = PutTree(f0, ts, Restrict(fs[sp].entries, S))
                    /\ dirs' = PutTreeDirs(D1, ts, Restrict(fs[sp].entries, S))
              /\ ct' = [ct EXCEPT !.pc = "except",
                                  !.cause = IF ReadableZip(fs, sp) THEN "io" ELSE "archive"]
           \/ /\ ReadableZip(fs, sp)
              /\ \E S \in (IF ReadableZip(fs, cp)
                             THEN Partial(DOMAIN fs[cp].entries) ELSE {{}}) :
                    /\ fs' = PutTree(PutTree(f0, ts, fs[sp].entries), tc,
                                     Restrict(fs[cp].entries, S))
                    /\ dirs' = PutTreeDirs(PutTreeDirs(D1, ts, fs[sp].entries), tc,
                                           Restrict(fs[cp].entries, S))
              /\ ct' = [ct EXCEPT !.pc = "except",
                                  !.cause = IF ReadableZip(fs, cp) THEN "io" ELSE "archive"]
    /\ unreadable' = unreadable \ (Below(unreadable, TempCompareSource(target_dir))
                                     \cup Below(unreadable, TempCompareTarget(target_dir)))
    /\ UNCHANGED <<clock, target_dir, backup_btn, cards, bk, rs, dl, nOps,
                   compare_btn, dialog, cmpVars, diffVars>>

\* the except clause of compare_backups_legacy and of run: both temporary
\* directories are removed where they exist and compare_failed is emitted
CompareExcept ==
    /\ ct.pc = "except"
    /\ fs' = CompareCleanFiles(fs, target_dir)
    /\ dirs' = CompareCleanDirs(dirs, target_dir)
    /\ unreadable' = unreadable \ (Below(unreadable, TempCompareSource(target_dir))
                                     \cup Below(unreadable, TempCompareTarget(target_dir)))
    /\ CompareEmit(NoDifferences, "failed", ct.cause)
    /\ UNCHANGED <<clock, target_dir, backup_btn, cards, bk, rs, dl, nOps,
                   compare_btn, dialog, cmpVars, diffVars>>

\* the bytes files_differ reads from an extracted file
AsFile(c) == IF c.kind = "file" THEN c ELSE File(<<c>>)

\* the files below an extracted directory, as get_directory_differences walks
\* and reads them
ExtractedTree(f, unr, d) ==
    [files |-> [r \in DOMAIN RelTree(f, d) |-> AsFile(RelTree(f, d)[r])],
     unreadable |-> {RelPath(p, d) : p \in Below(unr, d)}]

\* the rest of compare_backups_legacy: get_directory_differences, the removal
\* of the temporary directories (which raises when one is gone), and
\* compare_completed.emit
CompareDirs ==
    /\ ct.pc = "dirs"
    /\ LET ts == TempCompareSource(target_dir)
           tc == TempCompareTarget(target_dir)
       IN  /\ fs' = CompareCleanFiles(fs, target_dir)
           /\ dirs' = CompareCleanDirs(dirs, target_dir)
           /\ IF ts \in dirs /\ tc \in dirs
              THEN CompareEmit(get_directory_differences(
                                   ExtractedTree(fs, unreadable, ts),
                                   ExtractedTree(fs, unreadable, tc)),
                               "completed", "none")
              ELSE CompareEmit(NoDifferences, "failed", "gone")
    /\ UNCHANGED <<unreadable, clock, target_dir, backup_btn, cards, bk, rs, dl,
                   nOps, compare_btn, dialog, cmpVars, diffVars>>

\* show_comparison_results / comparison_failed, run by the GUI thread on the
\* signal (the files of the trees here carry no text extension, so that
\* get_file_diff is not called for them)
CompareCallback ==
    /\ ct.pc = "emitted"
    /\ dl.pc = "idle"
    /\ ct' = [ct EXCEPT !.pc = "done"]
    /\ compare_btn' = TRUE
    /\ UNCHANGED <<fsVars, dialog, cmpVars, diffVars>>

\* the manifest BackupThread.run records for a tree
ManifestOf(t, name) ==
    HashData(name, [r \in DOMAIN t.files |-> calculate_file_hash(t.files, t.unreadable, r)],
             source_dir)

\* the files and contents of the compared trees
CmpFiles == { << <<"a.txt">> >>, << <<"b.txt">> >>, << <<"c.txt">> >>, << <<"d.txt">> >> }
CmpContents == { <<1>>, <<2>>, <<1, 1>> }
\* (an unreadable file's bytes are never seen: one content stands for them)
TreesOf(f) ==
    {[files |-> f, unreadable |-> U] :
        U \in {V \in SUBSET DOMAIN f : \A r \in V : f[r] = File(<<1>>)}}
CmpTrees ==
    UNION {UNION {TreesOf(f) : f \in [S -> {File(d) : d \in CmpContents}]} :
           S \in SUBSET CmpFiles}

\* the first backup's manifest is loaded and the second's, and the manifests
\* are compared
CompareHash ==
    /\ cmp.pc = "idle"
    /\ cmp' = [pc |-> "hashed",
               source_hashes |-> ManifestOf(treeA, BackupName(1)),
               compare_hashes |-> ManifestOf(treeB, BackupName(2)),
               differences |-> get_hash_based_differences(
                                   ManifestOf(treeA, BackupName(1)),
                                   ManifestOf(treeB, BackupName(2)))]
    /\ UNCHANGED <<fsVars, treeA, treeB, uiVars, diffVars>>

\* the same trees are compared by the legacy path
CompareLegacy ==
    /\ cmp.pc = "hashed"
    /\ cmp' = [pc |-> "done",
               source_hashes |-> cmp.source_hashes,
               compare_hashes |-> cmp.compare_hashes,
               differences |-> cmp.differences,
               legacy |-> get_directory_differences(treeA, treeB)]
    /\ UNCHANGED <<fsVars, treeA, treeB, uiVars, diffVars>>

\* the two backups selected the other way round: the manifests are compared
\* with the second backup as the source
CompareReverse ==
    /\ cmp.pc = "done"
    /\ cmp' = [pc |-> "reversed",
               source_hashes |-> cmp.source_hashes,
               compare_hashes |-> cmp.compare_hashes,
               differences |-> cmp.differences,
               legacy |-> cmp.legacy,
               reverse |-> get_hash_based_differences(cmp.compare_hashes,
                                                      cmp.source_hashes)]
    /\ UNCHANGED <<fsVars, treeA, treeB, uiVars, diffVars>>

InitCompare ==
    /\ target_dir = << <<"store">> >>
    /\ fs = <<>>
    /\ dirs = {source_dir, target_dir}
    /\ unreadable = {}
    /\ clock = 1
    /\ backup_btn = TRUE
    /\ cards = {}
    /\ bk = [i \in Threads |-> IdleBackup]
    /\ rs = [i \in Threads |-> IdleRestore]
    /\ dl = IdleDelete
    /\ nOps = 0
    /\ treeA \in CmpTrees
    /\ treeB \in CmpTrees
    /\ cmp = IdleCompare
    /\ dialog = "none"
    /\ compare_btn = TRUE
    /\ ct = IdleCompareThread
    /\ lines1 = <<>>
    /\ lines2 = <<>>
    /\ diff = <<>>
    /\ widget = <<>>

NextCompare == CompareHash \/ CompareLegacy \/ CompareReverse

SpecCompare == InitCompare /\ [][NextCompare]_vars

\* ------------------------------------------------------------- the diff viewer
\* a line is the sequence of its characters; a text file the sequence of its
\* lines, as readlines() returns them (each with its newline)
\* the longest file shown
MaxLines == 5

\* the i-th line of the file in the first backup
FileLine(i) == <<"l", ToString(i), "\n">>

\* the texts the changed line can have in the second backup
NewLines == { <<"n", "e", "w", "\n">>, <<"-", "-", " ", "x", "\n">>, <<"+", "\n">> }

\* difflib.unified_diff's default n: the lines of context around a change
ContextLines == 3

Max(a, b) == IF a >= b THEN a ELSE b

\* the "start,length" of a hunk header (difflib writes "start" for length 1)
HunkRange(start, length) ==
    IF length = 1 THEN <<ToString(start)>> ELSE <<ToString(start), ",", ToString(length)>>

\* [prefix + line for line in lines[lo..hi]]
Prefixed(prefix, lines, lo, hi) ==
    [j \in 1..Max(hi - lo + 1, 0) |-> <<prefix>> \o lines[lo + j - 1]]

\* list(difflib.unified_diff(a, b, fromfile, tofile, lineterm='')) for two
\* files of the same length, of lines that are all different, that are equal
\* or differ in exactly one line: the two file headers, one hunk header, and
\* the changed line, removed then added, within up to three lines of context
unified_diff(a, b, fromfile, tofile) ==
    IF a = b THEN <<>>
    ELSE LET k == CHOOSE i \in 1..Len(a) : a[i] # b[i]
             lo == Max(1, k - ContextLines)
             hi == Min(Len(a), k + ContextLines)
         IN  << <<"-", "-", "-", " ">> \o fromfile,
                <<"+", "+", "+", " ">> \o tofile,
                <<"@", "@", " ", "-">> \o HunkRange(lo, hi - lo + 1) \o <<" ", "+">>
                    \o HunkRange(lo, hi - lo + 1) \o <<" ", "@", "@">> >>
             \o Prefixed(" ", a, lo, k - 1)
             \o << <<"-">> \o a[k], <<"+">> \o b[k] >>
             \o Prefixed(" ", a, k + 1, hi)

\* line.startswith(prefix)
StartsWith(line, prefix) ==
    Len(prefix) <= Len(line) /\ SubSeq(line, 1, Len(prefix)) = prefix

\* the entry add_diff_to_widget appends for one line of the diff: its marker
\* (added, removed, hunk header, file header or context) and the text after it
DiffEntry(line) ==
    IF StartsWith(line, <<"+">>) THEN [mark |-> "added", text |-> Tail(line)]
    ELSE IF StartsWith(line, <<"-">>) THEN [mark |-> "removed", text |-> Tail(line)]
    ELSE IF StartsWith(line, <<"@">>) THEN [mark |-> "hunk", text |-> line]
    ELSE IF StartsWith(line, <<"-", "-", "-">>) \/ StartsWith(line, <<"+", "+", "+">>)
         THEN [mark |-> "file", text |-> line]
    ELSE [mark |-> "context", text |-> line]

\* os.path.join(self.target_dir, "temp_diff_source" / "temp_diff_compare")
TempDiffSource(tdir) == Join(tdir, << <<"temp_diff_source">> >>)
TempDiffCompare(tdir) == Join(tdir, << <<"temp_diff_compare">> >>)

\* the file whose diff is shown, and the two backups compared
DiffFile == << <<"f", ".py">> >>
DiffSourceBackup == BackupName(1) \o <<".zip">>
DiffCompareBackup == BackupName(2) \o <<".zip">>

\* the file system and the directories without the two temporary directories
DiffCleanFiles(f, tdir) ==
    RmTreeFiles(RmTreeFiles(f, TempDiffSource(tdir)), TempDiffCompare(tdir))
DiffCleanDirs(D, tdir) ==
    RmTreeDirs(RmTreeDirs(D, TempDiffSource(tdir)), TempDiffCompare(tdir))

\* get_file_diff(source_backup, compare_backup, file_path): the temporary
\* directories are made afresh and both archives extracted; an exception
\* (an archive that cannot be read, an I/O error) removes them and returns
\* None; a file missing on one side returns None at once; otherwise the lines
\* are read and compared under the names '{source_backup}/{file_path}' and
\* '{compare_backup}/{file_path}', the directories removed and the list
\* returned
GetFileDiff ==
    /\ diff = <<>>
    /\ widget = <<>>
    /\ LET ts == TempDiffSource(target_dir)
           tc == TempDiffCompare(target_dir)
           sp == Join(target_dir, <<DiffSourceBackup>>)
           cp == Join(target_dir, <<DiffCompareBackup>>)
           f0 == DiffCleanFiles(fs, target_dir)
           D0 == DiffCleanDirs(MakeDirs(MakeDirs(dirs, ts), tc), target_dir)
           f1 == PutTree(PutTree(f0, ts, fs[sp].entries), tc, fs[cp].entries)
           D1 == PutTreeDirs(PutTreeDirs(D0, ts, fs[sp].entries), tc, fs[cp].entries)
           file1_path == Join(ts, DiffFile)
           file2_path == Join(tc, DiffFile)
       IN  \/ /\ fs' = f0
              /\ dirs' = D0
              /\ diff' = None
              /\ UNCHANGED <<lines1, lines2>>
           \/ /\ ReadableZip(fs, sp) /\ ReadableZip(fs, cp)
              /\ IF file1_path \notin DOMAIN f1 \/ file2_path \notin DOMAIN f1
                 THEN /\ fs' = f1
                      /\ dirs' = D1
                      /\ diff' = None
                      /\ UNCHANGED <<lines1, lines2>>
                 ELSE /\ lines1' = f1[file1_path].data
                      /\ lines2' = f1[file2_path].data
                      /\ diff' = unified_diff(f1[file1_path].data, f1[file2_path].data,
                                              DiffSourceBackup \o <<"/">> \o DiffFile[1],
                                              DiffCompareBackup \o <<"/">> \o DiffFile[1])
                      /\ fs' = f0
                      /\ dirs' = D0
    /\ UNCHANGED <<unreadable, clock, target_dir, backup_btn, cards, bk, rs, dl,
                   nOps, cmpVars, uiVars, widget>>

\* add_diff_to_widget(text_widget, diff_content), called when diff_content is
\* neither None nor empty
AddDiffToWidget ==
    /\ diff # <<>>
    /\ diff # None
    /\ widget = <<>>
    /\ widget' = [j \in 1..Len(diff) |-> DiffEntry(diff[j])]
    /\ UNCHANGED <<fsVars, cmpVars, uiVars, lines1, lines2, diff>>

\* the archive of a backup that holds the text file f.py with the given lines,
\* or that lacks it (present = FALSE)
DiffArchive(present, lines, state) ==
    Zip(IF present THEN (DiffFile :> File(lines)) ELSE (<< <<"a">> >> :> File(<<1>>)),
        state)

\* a store of two backups: a text file of up to MaxLines lines in the first
\* and the same file with one line changed in the second; the file may be
\* missing from either archive, and the second archive may be one that cannot
\* be read
InitDiff ==
    /\ target_dir = << <<"store">> >>
    /\ \E n \in 1..MaxLines : \E k \in 1..n : \E new \in NewLines :
       \E p1 \in BOOLEAN, p2 \in BOOLEAN, st \in {"full", "open"} :
          /\ (~p1 \/ ~p2 \/ st = "open") => (k = 1 /\ new = <<"+", "\n">>)
          /\ fs = (Join(target_dir, <<DiffSourceBackup>>) :>
                       DiffArchive(p1, [i \in 1..n |-> FileLine(i)], "full"))
                   @@ (Join(target_dir, <<DiffCompareBackup>>) :>
                       DiffArchive(p2, [i \in 1..n |-> IF i = k THEN new ELSE FileLine(i)],
                                   st))
    /\ dirs = {source_dir, target_dir}
    /\ unreadable = {}
    /\ clock = 1
    /\ backup_btn = TRUE
    /\ cards = Listing(fs, dirs, target_dir)
    /\ bk = [i \in Threads |-> IdleBackup]
    /\ rs = [i \in Threads |-> IdleRestore]
    /\ dl = IdleDelete
    /\ nOps = 0
    /\ treeA = EmptyTree
    /\ treeB = EmptyTree
    /\ cmp = IdleCompare
    /\ dialog = "none"
    /\ compare_btn = TRUE
    /\ ct = IdleCompareThread
    /\ lines1 = <<>>
    /\ lines2 = <<>>
    /\ diff = <<>>
    /\ widget = <<>>

NextDiff == GetFileDiff \/ AddDiffToWidget

SpecDiff == InitDiff /\ [][NextDiff]_vars

\* ------------------------------------------------------------- the application
Init ==
    /\ target_dir \in TargetDirs \cup {NoPath}
    /\ \E t \in Trees :
          /\ fs = PutTree(<<>>, source_dir, t)
          /\ dirs = PutTreeDirs(IF target_dir = NoPath THEN {source_dir}
                                ELSE MakeDirs({source_dir}, target_dir),
                                source_dir, t)
    /\ unreadable \in {U \in SUBSET DOMAIN fs : Cardinality(U) <= 1}
    /\ clock = 1
    /\ backup_btn = TRUE
    /\ cards = {}
    /\ bk = [i \in Threads |-> IdleBackup]
    /\ rs = [i \in Threads |-> IdleRestore]
    /\ dl = IdleDelete
    /\ nOps = 0
    /\ treeA = EmptyTree
    /\ treeB = EmptyTree
    /\ cmp = IdleCompare
    /\ dialog = "none"
    /\ compare_btn = TRUE
    /\ ct = IdleCompareThread
    /\ lines1 = <<>>
    /\ lines2 = <<>>
    /\ diff = <<>>
    /\ widget = <<>>

Next ==
    \/ \E i \in Threads : StartBackup(i)
    \/ StartBackupRejected
    \/ \E i \in Threads : BackupHash(i)
    \/ \E i \in Threads : BackupOpenZip(i)
    \/ \E i \in Threads : BackupWriteZip(i)
    \/ \E i \in Threads : BackupManifest(i)
    \/ \E i \in Threads : BackupCallback(i)
    \/ \E i \in Threads : \E n \in cards : StartRestore(i, n)
    \/ \E i \in Threads : RestorePrep(i)
    \/ \E i \in Threads : RestoreExtract(i)
    \/ \E i \in Threads : RestoreRemove(i)
    \/ \E i \in Threads : RestoreList(i)
    \/ \E i \in Threads : RestoreMoveItem(i)
    \/ \E i \in Threads : RestoreCleanup(i)
    \/ \E i \in Threads : RestoreCallback(i)
    \/ \E n \in cards : DeleteArchive(n)
    \/ DeleteHashFile
    \/ DeleteNotesFile
    \/ Edit
    \/ \E a \in cards : \E b \in cards : StartCompare(a, b)
    \/ CompareCheck
    \/ CompareLoad
    \/ CompareExtract
    \/ CompareExcept
    \/ CompareDirs
    \/ CompareCallback

Spec == Init /\ [][Next]_vars

\* the digests of a tree's files
Digests(t) == [r \in DOMAIN t |-> Md5(t[r])]

\* ------------------------------------------------------------- a store with two backups
\* the application started on a target directory that holds two backups, made
\* of any two source trees; either manifest can be missing (a backup whose
\* manifest write failed, or one made before manifests were written) and
\* either archive can be without its central directory (its BackupThread was
\* killed while writing it)
StoreTrees == UNION {[S -> {File(d) : d \in Contents}] : S \in SUBSET RelFiles}

StoreBackup(tdir, t, tree, state, manifest) ==
    (<< BackupName(t) \o <<".zip">> >> :>
        Zip(IF state = "full" THEN tree ELSE <<>>, state))
    @@ (IF manifest
        THEN << BackupName(t) \o <<"_hashes.json">> >> :>
                 HashData(BackupName(t), Digests(tree), source_dir)
        ELSE <<>>)

InitStore ==
    /\ target_dir = << <<"store">> >>
    /\ \E tA \in StoreTrees, tB \in StoreTrees, sA \in {"full", "open"},
          sB \in {"full", "open"}, mA \in BOOLEAN, mB \in BOOLEAN :
          fs = PutTree(PutTree(<<>>, target_dir,
                               StoreBackup(target_dir, 1, tA, sA, mA)),
                       target_dir, StoreBackup(target_dir, 2, tB, sB, mB))
    /\ dirs = {source_dir, target_dir}
    /\ unreadable = {}
    /\ clock = 2
    /\ backup_btn = TRUE
    /\ cards = Listing(fs, dirs, target_dir)
    /\ bk = [i \in Threads |-> IdleBackup]
    /\ rs = [i \in Threads |-> IdleRestore]
    /\ dl = IdleDelete
    /\ nOps = 0
    /\ treeA = EmptyTree
    /\ treeB = EmptyTree
    /\ cmp = IdleCompare
    /\ dialog = "none"
    /\ compare_btn = TRUE
    /\ ct = IdleCompareThread
    /\ lines1 = <<>>
    /\ lines2 = <<>>
    /\ diff = <<>>
    /\ widget = <<>>

NextStore ==
    \/ \E a \in cards : \E b \in cards : StartCompare(a, b)
    \/ CompareCheck
    \/ CompareLoad
    \/ CompareExtract
    \/ CompareExcept
    \/ CompareDirs
    \/ CompareCallback

SpecStore == InitStore /\ [][NextStore]_vars

\* the application started on a target directory outside the source tree that
\* holds one earlier backup, of another state of the source tree: load_settings
\* and load_backups list it
InitRestart ==
    /\ target_dir = << <<"store">> >>
    /\ fs = PutTree(PutTree(<<>>, source_dir, (<< <<"a">> >> :> File(<<1>>))),
                    target_dir,
                    StoreBackup(target_dir, 0, (<< <<"a">> >> :> File(<<2>>)),
                                "full", TRUE))
    /\ dirs = {source_dir, target_dir}
    /\ unreadable = {}
    /\ clock = 1
    /\ backup_btn = TRUE
    /\ cards = Listing(fs, dirs, target_dir)
    /\ bk = [i \in Threads |-> IdleBackup]
    /\ rs = [i \in Threads |-> IdleRestore]
    /\ dl = IdleDelete
    /\ nOps = 0
    /\ treeA = EmptyTree
    /\ treeB = EmptyTree
    /\ cmp = IdleCompare
    /\ dialog = "none"
    /\ compare_btn = TRUE
    /\ ct = IdleCompareThread
    /\ lines1 = <<>>
    /\ lines2 = <<>>
    /\ diff = <<>>
    /\ widget = <<>>

SpecRestart == InitRestart /\ [][Next]_vars

\* ============================================================= claims
DiffKeysA == DOMAIN cmp.source_hashes.file_hashes
DiffKeysB == DOMAIN cmp.compare_hashes.file_hashes

\* C4: after the hash-based compare of any two manifests A and B, the four
\* result lists together hold exactly keys(A) \cup keys(B), they are pairwise
\* disjoint and no key is listed twice.
DiffPartition ==
    cmp.pc # "idle" =>
        LET d == cmp.differences
        IN  /\ Items(d.added) \cup Items(d.removed) \cup Items(d.modified)
                   \cup Items(d.unchanged) = DiffKeysA \cup DiffKeysB
            /\ Items(d.added) \cap Items(d.removed) = {}
            /\ Items(d.added) \cap Items(d.modified) = {}
            /\ Items(d.added) \cap Items(d.unchanged) = {}
            /\ Items(d.removed) \cap Items(d.modified) = {}
            /\ Items(d.removed) \cap Items(d.unchanged) = {}
            /\ Items(d.modified) \cap Items(d.unchanged) = {}
            /\ Len(d.added) + Len(d.removed) + Len(d.modified) + Len(d.unchanged)
                   = Cardinality(DiffKeysA \cup DiffKeysB)

\* a compare whose four lists are all non-empty
DiffPartitionWitness ==
    /\ cmp.pc # "idle"
    /\ cmp.differences.added # <<>>
    /\ cmp.differences.removed # <<>>
    /\ cmp.differences.modified # <<>>
    /\ cmp.differences.unchanged # <<>>

\* C5: the hash-based compare returns added = keys(B) - keys(A), removed =
\* keys(A) - keys(B), and a key of both is modified iff its two digests differ
\* and unchanged otherwise.
DiffClassification ==
    cmp.pc # "idle" =>
        LET d == cmp.differences
            A == cmp.source_hashes.file_hashes
            B == cmp.compare_hashes.file_hashes
        IN  /\ Items(d.added) = DOMAIN B \ DOMAIN A
            /\ Items(d.removed) = DOMAIN A \ DOMAIN B
            /\ \A k \in DOMAIN A \cap DOMAIN B :
                  /\ k \in Items(d.modified) <=> A[k] # B[k]
                  /\ k \in Items(d.unchanged) <=> A[k] = B[k]
            /\ Items(d.modified) \cup Items(d.unchanged) \subseteq DOMAIN A \cap DOMAIN B

\* scenario 1: a.txt deleted, b.txt changed, c.txt added between two backups
DiffClassificationWitness ==
    /\ cmp.pc # "idle"
    /\ treeA = [files |-> (<< <<"a.txt">> >> :> File(<<1>>)) @@ (<< <<"b.txt">> >> :> File(<<2>>)),
                unreadable |-> {}]
    /\ treeB = [files |-> (<< <<"b.txt">> >> :> File(<<1, 1>>)) @@ (<< <<"c.txt">> >> :> File(<<1>>)),
                unreadable |-> {}]
    /\ cmp.differences = [added |-> << << <<"c.txt">> >> >>,
                          removed |-> << << <<"a.txt">> >> >>,
                          modified |-> << << <<"b.txt">> >> >>,
                          unchanged |-> <<>>]

\* C6: for every pair of trees the legacy byte comparison yields the same
\* added, removed, modified and unchanged sets as the hash-based comparison of
\* the manifests a backup records for those trees, unreadable files included.
FallbackEquivalence ==
    cmp.pc = "done" =>
        /\ Items(cmp.legacy.added) = Items(cmp.differences.added)
        /\ Items(cmp.legacy.removed) = Items(cmp.differences.removed)
        /\ Items(cmp.legacy.modified) = Items(cmp.differences.modified)
        /\ Items(cmp.legacy.unchanged) = Items(cmp.differences.unchanged)

\* ------------------------------------------------------------- store claims
\* thread b made the archive at its path and no other thread wrote there
SoleBackup(b) ==
    /\ bk[b].pc # "idle"
    /\ \A c \in Threads \ {b} : bk[c].pc # "idle" => bk[c].path # bk[b].path

\* C1: a restore that completed, of a backup that completed of the tree T,
\* leaves in the destination exactly T's relative paths, each with the digest
\* it had in T.
RoundTrip ==
    \A r \in Threads : \A b \in Threads :
        ( /\ rs[r].pc = "emitted"
          /\ rs[r].result = "completed"
          /\ bk[b].result = "completed"
          /\ SoleBackup(b)
          /\ rs[r].path = bk[b].path )
        => Digests(RelTree(fs, rs[r].dest)) = Digests(bk[b].tree)

\* C2: a restore that failed while extracting leaves in the destination
\* exactly the files it found there.
ExtractFailureKeepsDest ==
    \A r \in Threads :
        ( /\ rs[r].pc = "emitted"
          /\ rs[r].result = "failed"
          /\ rs[r].step = "extract" )
        => RelTree(fs, rs[r].dest) = rs[r].prior

\* the archive's tree with its single top-level directory stripped
Flattened(t) == [r \in {RelPath(q, <<q[1]>>) : q \in DOMAIN t} |->
                    t[CHOOSE q \in DOMAIN t : RelPath(q, <<q[1]>>) = r]]

\* C3: from its start to its report, a restore whose staging directory lies
\* outside the destination leaves the destination holding either the files it
\* found there or the snapshot's files (as archived, or one level flattened),
\* never anything else.
NeverRemoveThenPopulate ==
    \A r \in Threads :
        ( /\ rs[r].pc \notin {"idle", "done"}
          /\ ~IsPrefix(rs[r].dest, TempDir(rs[r].path))
          /\ ReadableZip(fs, rs[r].path) )
        => \/ RelTree(fs, rs[r].dest) = rs[r].prior
           \/ RelTree(fs, rs[r].dest) = fs[rs[r].path].entries
           \/ RelTree(fs, rs[r].dest) = Flattened(fs[rs[r].path].entries)

\* the archive a manifest path belongs to
ArchiveOf(hp) == Replace(hp, "_hashes.json", ".zip")

\* the target directory lies outside the source tree
StoreOutside == ~IsPrefix(source_dir, target_dir)

\* C7: in every state of a store outside the source tree, whenever a
\* snapshot's manifest exists in the target directory, its archive exists
\* there and is fully written.
ManifestImpliesArchive ==
    \A hp \in DOMAIN fs :
        (StoreOutside /\ Dirname(hp) = target_dir /\ fs[hp].kind = "json")
        => /\ ArchiveOf(hp) \in DOMAIN fs
           /\ fs[ArchiveOf(hp)].state = "full"

\* C8: after a backup into a store outside the source tree failed, the
\* target directory lists no archive of its name (no other backup having
\* written one of that name).
FailedBackupLeavesNoSnapshot ==
    \A b \in Threads :
        ( /\ bk[b].result = "failed"
          /\ StoreOutside
          /\ SoleBackup(b) )
        => bk[b].path[Len(bk[b].path)] \notin Listing(fs, dirs, target_dir)

\* C9: a backup, into a store outside the source tree, of a tree with exactly
\* one unreadable file, none of whose writes to the target directory fails,
\* reports success, having recorded the marker for that file and the digest
\* of every other file.
UnreadableFileDoesNotBlock ==
    \A b \in Threads :
        ( /\ bk[b].pc \in {"emitted", "done"}
          /\ StoreOutside
          /\ Cardinality(bk[b].unr) = 1
          /\ bk[b].cause # "io" )
        => /\ bk[b].result = "completed"
           /\ \A r \in DOMAIN bk[b].tree \cap DOMAIN bk[b].file_hashes :
                 bk[b].file_hashes[r] =
                     IF r \in bk[b].unr THEN None ELSE Md5(bk[b].tree[r])

\* C10: when a backup reports success, the keys of its manifest are exactly
\* the entries of its archive.
ManifestKeysAreArchiveEntries ==
    \A b \in Threads :
        ( /\ bk[b].pc = "emitted"
          /\ bk[b].result = "completed"
          /\ SoleBackup(b)
          /\ bk[b].path \in DOMAIN fs
          /\ HashFilePath(bk[b].path) \in DOMAIN fs )
        => DOMAIN fs[HashFilePath(bk[b].path)].file_hashes
               = DOMAIN fs[bk[b].path].entries

\* ------------------------------------------------------------- engine claims
\* the operations at work on the target directory: BackupThreads and
\* RestoreThreads between start() and their signal, delete_backup between its
\* first os.remove and its return
ActiveBackups == {i \in Threads : bk[i].pc \in {"hash", "open", "write", "manifest"}}
ActiveRestores ==
    {i \in Threads : rs[i].pc \in {"prep", "extract", "remove", "list", "move", "cleanup"}}
ActiveDeletes == IF dl.pc = "idle" THEN 0 ELSE 1

\* C11: in no state are two of backup, restore and delete at work on the
\* target directory.
OneMutatingOperation ==
    Cardinality(ActiveBackups) + Cardinality(ActiveRestores) + ActiveDeletes <= 1

\* the signals a thread object has emitted by the time it is at pc, with result
SignalledOnce(t, running) ==
    IF t.pc \in running THEN t.emits = NoEmits
    ELSE /\ t.emits.completed + t.emits.failed = 1
         /\ t.emits.completed = 1 <=> t.result = "completed"
         /\ t.emits.failed = 1 <=> t.result = "failed"

\* C12: a BackupThread, RestoreThread or CompareThread has emitted no signal
\* while it is idle or running, and once its run() is over it has emitted
\* exactly one signal, one time: completed or failed, never both.
ExactlyOneSignal ==
    /\ \A i \in Threads :
          SignalledOnce(bk[i], {"idle", "hash", "open", "write", "manifest"})
    /\ \A i \in Threads :
          SignalledOnce(rs[i], {"idle", "prep", "extract", "remove", "list", "move",
                                "cleanup"})
    /\ SignalledOnce(ct, {"idle", "check", "load", "extract", "except", "dirs"})

\* a backup that failed, a backup that completed and a compare that reported
ExactlyOneSignalWitness ==
    /\ \E i \in Threads : bk[i].pc = "done" /\ bk[i].result = "failed"
    /\ \E i \in Threads : bk[i].pc = "done" /\ bk[i].result = "completed"
    /\ ct.pc = "done"

\* C13: whichever of a backup's archive, manifest and notes file is already
\* absent, a delete_backup of it returns without an error, and when it
\* returns none of the three files exists.
DeleteIdempotent ==
    [][(dl' # dl /\ dl'.pc = "idle")
         => /\ ~dl'.error
            /\ dl'.path \notin DOMAIN fs'
            /\ HashFilePath(dl'.path) \notin DOMAIN fs'
            /\ NotesFilePath(dl'.path) \notin DOMAIN fs']_vars

\* the manifests and archives of the compared backups as the compare found them
SeenManifestMissing ==
    \/ HashFilePath(Join(target_dir, <<ct.source_backup>>)) \notin DOMAIN ct.seen
    \/ HashFilePath(Join(target_dir, <<ct.compare_backup>>)) \notin DOMAIN ct.seen
SeenArchivesReadable ==
    /\ ReadableZip(ct.seen, Join(target_dir, <<ct.source_backup>>))
    /\ ReadableZip(ct.seen, Join(target_dir, <<ct.compare_backup>>))

\* C14: a compare takes the legacy path exactly when one of the two manifests
\* is missing; when it does and both archives are readable (and no write to
\* the temporary directories fails) it reports success, with the added and
\* removed files of the two archives.
FallbackOnMissingManifest ==
    ct.pc \in {"emitted", "done"} =>
        /\ ct.legacy <=> SeenManifestMissing
        /\ (SeenManifestMissing /\ SeenArchivesReadable /\ ct.cause # "io")
           => LET A == ct.seen[Join(target_dir, <<ct.source_backup>>)].entries
                  B == ct.seen[Join(target_dir, <<ct.compare_backup>>)].entries
              IN  /\ ct.result = "completed"
                  /\ Items(ct.differences.added) = DOMAIN B \ DOMAIN A
                  /\ Items(ct.differences.removed) = DOMAIN A \ DOMAIN B
                  /\ Items(ct.differences.modified) \cup Items(ct.differences.unchanged)
                         = DOMAIN A \cap DOMAIN B

\* a compare without one manifest that succeeded and found a modified file
FallbackOnMissingManifestWitness ==
    /\ ct.pc = "done"
    /\ SeenManifestMissing
    /\ ct.legacy
    /\ ct.result = "completed"
    /\ ct.differences.modified # <<>>

CompareSymmetry ==
    cmp.pc = "reversed" =>
        /\ Items(cmp.differences.added) = Items(cmp.reverse.removed)
        /\ Items(cmp.differences.removed) = Items(cmp.reverse.added)
        /\ Items(cmp.differences.modified) = Items(cmp.reverse.modified)
        /\ Items(cmp.differences.unchanged) = Items(cmp.reverse.unchanged)

\* both directions compared, of manifests with a file only in A, a file only
\* in B, a file of both that differs and one that does not
CompareSymmetryWitness ==
    /\ cmp.pc = "reversed"
    /\ cmp.reverse.added # <<>>
    /\ cmp.reverse.removed # <<>>
    /\ cmp.reverse.modified # <<>>
    /\ cmp.reverse.unchanged # <<>>

\* C17: a compare leaves the archives and manifests of the two backups as it
\* found them, and a compare that completes after another compare of the
\* same two backups completed reports the same four sets as that one did.
CompareDeterministic ==
    ct.pc # "idle" =>
        /\ Restrict(fs, ComparedPaths(target_dir, ct.source_backup, ct.compare_backup)
                            \cap DOMAIN fs) = ct.seen
        /\ ( /\ ct.pc \in {"emitted", "done"}
             /\ ct.result = "completed"
             /\ ct.prevPair = <<ct.source_backup, ct.compare_backup>> )
           => /\ Items(ct.differences.added) = Items(ct.prev.added)
              /\ Items(ct.differences.removed) = Items(ct.prev.removed)
              /\ Items(ct.differences.modified) = Items(ct.prev.modified)
              /\ Items(ct.differences.unchanged) = Items(ct.prev.unchanged)

\* the second of two completed compares of the same two backups, which differ
\* in a file
CompareDeterministicWitness ==
    /\ ct.pc = "done"
    /\ ct.result = "completed"
    /\ ct.prevPair = <<ct.source_backup, ct.compare_backup>>
    /\ ct.differences.modified # <<>>
    /\ ct.seen # <<>>

\* the entries of the widget with a given marker
Marked(m) == {j \in 1..Len(widget) : widget[j].mark = m}

\* C18: the diff shown for a file changed in exactly one line has exactly one
\* line marked added and one marked removed; its '---' and '+++' lines are
\* marked as file headers and its '@@' line as a hunk header.
OneLineChangeLabels ==
    widget # <<>> =>
        /\ Cardinality(Marked("added")) = 1
        /\ Cardinality(Marked("removed")) = 1
        /\ \A j \in 1..Len(diff) :
              ( \/ StartsWith(diff[j], <<"-", "-", "-", " ", "BACKUP_">>)
                \/ StartsWith(diff[j], <<"+", "+", "+", " ", "BACKUP_">>) )
              => widget[j].mark = "file"
        /\ \A j \in 1..Len(diff) :
              StartsWith(diff[j], <<"@", "@">>) => widget[j].mark = "hunk"

\* C19: every manifest on disk has total_files equal to the number of keys of
\* its file_hashes.
ManifestTotalFiles ==
    \A p \in DOMAIN fs :
        fs[p].kind = "json" => fs[p].total_files = Cardinality(DOMAIN fs[p].file_hashes)

\* a backup of a tree of two files has written its manifest
ManifestTotalFilesWitness ==
    \E b \in Threads :
        /\ bk[b].result = "completed"
        /\ HashFilePath(bk[b].path) \in DOMAIN fs
        /\ fs[HashFilePath(bk[b].path)].total_files = 2
        /\ DOMAIN fs[HashFilePath(bk[b].path)].file_hashes = RelFiles

\* the archive's top level is a single directory
SingleTopDirectory(t) ==
    /\ Cardinality({q[1] : q \in DOMAIN t}) = 1
    /\ \A q \in DOMAIN t : Len(q) > 1

\* C20: at the moment a restore from a store outside the source tree reports
\* success, the destination holds exactly the files of the archive it extracted (those of its single
\* top-level directory, one level up, when its top level is a single
\* directory) and the staging directory does not exist.
RestoreReplacesDestination ==
    [][\A r \in Threads :
          ( /\ rs[r].pc # "emitted"
            /\ rs'[r].pc = "emitted"
            /\ rs'[r].result = "completed"
            /\ StoreOutside )
          => /\ RelTree(fs', rs'[r].dest) =
                    IF SingleTopDirectory(rs'[r].archive)
                    THEN Flattened(rs'[r].archive)
                    ELSE rs'[r].archive
             /\ TempDir(rs'[r].path) \notin dirs']_vars

\* C21: when the legacy comparison has returned or raised (the signal is
\* emitted), on success, on a failure extracting the first archive, on a failure
\* extracting the second and on a failure while comparing, neither
\* temp_compare_source nor temp_compare_target exists in the target directory
LegacyTempDirsRemoved ==
    [][(ct.pc # "emitted" /\ ct'.pc = "emitted" /\ ct'.legacy) =>
        /\ TempCompareSource(target_dir) \notin dirs'
        /\ TempCompareTarget(target_dir) \notin dirs'
        /\ Below(DOMAIN fs', TempCompareSource(target_dir)) = {}
        /\ Below(DOMAIN fs', TempCompareTarget(target_dir)) = {}]_vars
\* a legacy comparison whose extraction raised an I/O error after the temporary
\* directories were made has emitted its failure
LegacyTempDirsRemovedWitness ==
    /\ ct.pc = "emitted"
    /\ ct.legacy
    /\ ct.result = "failed"
    /\ ct.cause = "io"

\* C22: when two backups started within the same clock second (so that they
\* share a name) have both completed, the store holds under that name the
\* archive the later backup wrote together with the manifest the later backup
\* wrote, never the archive of one with the manifest of the other (store outside
\* the source tree, no third backup of that name, nothing deleted).
SameSecondOverwrite ==
    \A a \in Threads : \A b \in Threads :
        ( /\ a < b
          /\ StoreOutside
          /\ dl = IdleDelete
          /\ bk[a].pc \in {"emitted", "done"} /\ bk[a].result = "completed"
          /\ bk[b].pc \in {"emitted", "done"} /\ bk[b].result = "completed"
          /\ bk[a].path = bk[b].path
          /\ \A c \in Threads \ {a, b} : bk[c].path # bk[b].path )
        => /\ bk[b].path \in DOMAIN fs
           /\ fs[bk[b].path] = Zip(bk[b].archived, "full")
           /\ HashFilePath(bk[b].path) \in DOMAIN fs
           /\ fs[HashFilePath(bk[b].path)].file_hashes = bk[b].file_hashes

\* C24: at most one BackupThread runs at a time: a second backup is not
\* started while a first is still running (the 'Create Backup' button being
\* enabled only while no backup or restore worker runs).
OneBackupAtATime ==
    /\ Cardinality(ActiveBackups) <= 1
    /\ backup_btn => (ActiveBackups = {} /\ ActiveRestores = {})

\* the snapshot files of the store: the archives, manifests and notes files
\* (names starting with BACKUP_) in the target directory, with their contents
SnapshotFiles(f, tdir) ==
    Restrict(f, {p \in DOMAIN f : Dirname(p) = tdir /\ p[Len(p)][1] = "BACKUP_"})

\* C23: no step of a restore deletes or alters a snapshot file of the store,
\* wherever the store lies relative to the restore destination (outside it,
\* equal to it, or inside it).
RestoreKeepsSnapshots ==
    [][(rs' # rs) => SnapshotFiles(fs', target_dir) = SnapshotFiles(fs, target_dir)]_vars

\* C27: no step of a backup creates, modifies or deletes a file under the
\* source directory, wherever the target directory lies (outside the source,
\* equal to it, or inside it).
BackupKeepsSource ==
    [][(bk' # bk) => RelTree(fs', source_dir) = RelTree(fs, source_dir)]_vars

\* C25: after the hash-based compare, a key of both manifests whose digest is
\* the 'unavailable' marker (None) in at least one of them, both included, is
\* in the modified list and not in the unchanged list.
UnavailableIsModified ==
    cmp.pc # "idle" =>
        LET d == cmp.differences
            A == cmp.source_hashes.file_hashes
            B == cmp.compare_hashes.file_hashes
        IN  \A k \in DOMAIN A \cap DOMAIN B :
                (A[k] = None \/ B[k] = None) =>
                    /\ k \in Items(d.modified)
                    /\ k \notin Items(d.unchanged)

\* C26: when get_file_diff has returned (a diff, None because the file is
\* missing on one side, or None after an exception), neither temp_diff_source
\* nor temp_diff_compare exists in the target directory.
DiffTempDirsRemoved ==
    diff # <<>> =>
        /\ TempDiffSource(target_dir) \notin dirs
        /\ TempDiffCompare(target_dir) \notin dirs
        /\ Below(DOMAIN fs, TempDiffSource(target_dir)) = {}
        /\ Below(DOMAIN fs, TempDiffCompare(target_dir)) = {}

\* C28: the manifest path and the notes path derived from a backup's archive
\* path lie in the directory of the archive and differ from the archive path
\* only in the final suffix, for every target directory, one whose name
\* contains ".zip" included.
SidecarBesideArchive ==
    \A b \in Threads :
        bk[b].pc # "idle" =>
            /\ Dirname(HashFilePath(bk[b].path)) = Dirname(bk[b].path)
            /\ Dirname(NotesFilePath(bk[b].path)) = Dirname(bk[b].path)
            /\ HashFilePath(bk[b].path) =
                   Join(target_dir, << BackupName(bk[b].t) \o <<"_hashes.json">> >>)
            /\ NotesFilePath(bk[b].path) =
                   Join(target_dir, << BackupName(bk[b].t) \o <<"_notes.txt">> >>)
====
